---- MODULE Spec2Model ----
(***************************************************************************)
(* wireguard-vanity-key: search for a Curve25519 key pair whose base64     *)
(* public key starts with a prefix (src/main.go, and the C worker wvk).    *)
(*                                                                         *)
(* The curve arithmetic is carried out on a curve of the same shape as     *)
(* edwards25519, -x^2 + y^2 = 1 + d x^2 y^2 over GF(FieldP) with cofactor  *)
(* 8 and a prime subgroup of order GroupL = 2^LBits + SmallL (l mod 8 = 5  *)
(* as for edwards25519), small enough for TLC to enumerate.  Machine       *)
(* words are UintBits wide, with 2^UintBits < GroupL as 2^64 < l.          *)
(***************************************************************************)
EXTENDS Integers, Sequences, FiniteSets, TLC

VARIABLES
    pfx,        \* prefix string under test (sequence of ASCII codes)
    msg,        \* the bytes handed to the predicate
    verdict,    \* "none", or the predicate's answer
    cfg,        \* the search process: key read by newPair, flags, runtime.NumCPU()
    mn,         \* main: pc, s0 (-1 for nil), p0, test
    ctx,        \* the context main passes down: "live", "signal" or "timeout"
    gcancel,    \* cancel() of findPointParallel's gctx has been called
    wk,         \* the worker goroutines: pc, skip, n, pp, ok and what they did
    result,     \* the result channel
    sent,       \* every value written to the result channel, in order
    cw,         \* the C worker process (wvk offset)
    ad,         \* the recovery process (add of the Go CLI or of wvk)
    attempts,   \* the atomic attempts counter
    wg,         \* the WaitGroup counter
    co,         \* findPointParallel: pc and what it returns
    out,        \* what main printed and its exit status
    call        \* a function of the program called on its own: fn, its inputs, ret

prefixVars == <<pfx, msg, verdict>>
searchVars == <<cfg, mn, ctx, gcancel, wk, result, sent, attempts, wg, co, out>>
vars == <<pfx, msg, verdict, cfg, mn, ctx, gcancel, wk, result, sent, attempts, wg, co, out, cw, ad, call>>

\* the prefix matcher on its own is not running
PrefixIdle == pfx = <<>> /\ msg = <<>> /\ verdict = "none"

\* no C worker runs
WvkIdle == cw = [pc |-> "idle"]

\* no recovery process runs
AddIdle == ad = [pc |-> "idle"]

\* no function is called on its own
CallIdle == call = [fn |-> "idle"]

----------------------------------------------------------------------------
(* Bounds of the model *)

\* longest prefix drawn, in characters
MaxPrefixLen == 4

\* batches a worker runs at most
MaxBatches == 3

----------------------------------------------------------------------------
(* Bytes, strings and base64 *)

\* length of keys and of encoded field elements (make([]byte, 32), [32]byte)
KeyLen == 32

Pow2(n) == 2 ^ n

Min(a, b) == IF a < b THEN a ELSE b

\* "ABCDEFGHIJKLMNOPQRSTUVWXYZabcdefghijklmnopqrstuvwxyz0123456789+/" as ASCII
stdEncoding ==
    [i \in 1..64 |->
        IF i <= 26 THEN 64 + i
        ELSE IF i <= 52 THEN 70 + i
        ELSE IF i <= 62 THEN i - 5
        ELSE IF i = 63 THEN 43 ELSE 47]

\* '='
PadChar == 61

\* strings.IndexByte: index of the first occurrence of c in s (0-based), or -1
IndexByte(s, c) ==
    IF \E i \in 1..Len(s) : s[i] = c
    THEN (CHOOSE i \in 1..Len(s) : s[i] = c /\ \A j \in 1..(i - 1) : s[j] # c) - 1
    ELSE -1

\* bit j (0-based, most significant bit of byte 1 first) of a byte string, 0 beyond it
BitAt(b, j) ==
    IF (j \div 8) + 1 <= Len(b) THEN (b[(j \div 8) + 1] \div Pow2(7 - (j % 8))) % 2 ELSE 0

\* the 6-bit group number i (0-based) of a byte string, zero padded
Sextet(b, i) ==
    32 * BitAt(b, 6 * i) + 16 * BitAt(b, 6 * i + 1) + 8 * BitAt(b, 6 * i + 2)
    + 4 * BitAt(b, 6 * i + 3) + 2 * BitAt(b, 6 * i + 4) + BitAt(b, 6 * i + 5)

\* base64.StdEncoding.EncodeToString
EncodeToString(b) ==
    LET data == (8 * Len(b) + 5) \div 6
        total == 4 * ((Len(b) + 2) \div 3)
    IN  [i \in 1..total |-> IF i <= data THEN stdEncoding[Sextet(b, i - 1) + 1] ELSE PadChar]

\* strings.HasPrefix / bytes.HasPrefix
HasPrefix(s, p) == Len(s) >= Len(p) /\ \A i \in 1..Len(p) : s[i] = p[i]

----------------------------------------------------------------------------
(* math/big as used by decodeBase64PrefixBits: a natural number held as   *)
(* little-endian base-256 limbs without leading zero limbs.               *)

RECURSIVE BigMulAddLimbs(_, _, _)
BigMulAddLimbs(b, m, carry) ==
    IF b = <<>>
    THEN IF carry = 0 THEN <<>>
         ELSE <<carry % 256>> \o BigMulAddLimbs(<<>>, m, carry \div 256)
    ELSE LET t == Head(b) * m + carry
         IN  <<t % 256>> \o BigMulAddLimbs(Tail(b), m, t \div 256)

\* big.Int.Mul by a small factor followed by big.Int.Add of a small addend
BigMulAdd(b, m, a) == BigMulAddLimbs(b, m, a)

\* big.Int.Bytes: big-endian magnitude, empty for zero
BigBytes(b) == [i \in 1..Len(b) |-> b[Len(b) + 1 - i]]

----------------------------------------------------------------------------
(* Prefix matcher (src/main.go, testBase64Prefix)                          *)

RECURSIVE DecodeDigits(_, _, _)
\* the loop of decodeBase64PrefixBits over prefix[i..]; "panic" on a bad byte
DecodeDigits(prefix, i, acc) ==
    IF i > Len(prefix) THEN [panic |-> FALSE, int |-> acc]
    ELSE LET digit == IndexByte(stdEncoding, prefix[i])
         IN  IF digit >= 0 THEN DecodeDigits(prefix, i + 1, BigMulAdd(acc, 64, digit))
             ELSE IF prefix[i] = PadChar THEN DecodeDigits(prefix, i + 1, acc)
             ELSE [panic |-> TRUE, int |-> acc]

decodeBase64PrefixBitsBadShift(prefix) ==
    LET decodedBits == 6 * Len(prefix)
        tailBits == decodedBits % 8
        loop == DecodeDigits(prefix, 1, <<>>)
        decodedInt == IF tailBits # 0 THEN BigMulAdd(loop.int, Pow2(tailBits), 0) ELSE loop.int
        decoded == BigBytes(decodedInt)
        buflen == (decodedBits + 7) \div 8
    IN  IF loop.panic \/ Len(decoded) > buflen
        THEN [panic |-> TRUE, buf |-> <<>>, bits |-> decodedBits]
        ELSE [panic |-> FALSE,
              buf |-> [i \in 1..buflen |->
                         IF i <= buflen - Len(decoded) THEN 0
                         ELSE decoded[i - (buflen - Len(decoded))]],
              bits |-> decodedBits]

\* decodeBase64PrefixBits: the decoded prefix, left padded, and its bit count
decodeBase64PrefixBits(prefix) ==
    LET decodedBits == 6 * Len(prefix)
        tailBits == decodedBits % 8
        loop == DecodeDigits(prefix, 1, <<>>)
        decodedInt == IF tailBits # 0 THEN BigMulAdd(loop.int, Pow2(8 - tailBits), 0) ELSE loop.int
        decoded == BigBytes(decodedInt)
        buflen == (decodedBits + 7) \div 8
    IN  IF loop.panic \/ Len(decoded) > buflen
        THEN [panic |-> TRUE, buf |-> <<>>, bits |-> decodedBits]
        ELSE [panic |-> FALSE,
              buf |-> [i \in 1..buflen |->
                         IF i <= buflen - Len(decoded) THEN 0
                         ELSE decoded[i - (buflen - Len(decoded))]],
              bits |-> decodedBits]

\* testBase64Prefix: the variables captured by the returned closure
testBase64Prefix(prefix) ==
    LET dec == decodeBase64PrefixBits(prefix)
        decodedBytes == dec.bits \div 8
        shift == 8 - (dec.bits % 8)
    IN  IF dec.panic THEN [panic |-> TRUE]
        ELSE IF dec.bits % 8 = 0
        THEN [panic |-> FALSE, aligned |-> TRUE, decoded |-> dec.buf,
              decodedBytes |-> decodedBytes, shift |-> 0, tailByte |-> 0]
        ELSE [panic |-> FALSE, aligned |-> FALSE,
              decoded |-> SubSeq(dec.buf, 1, decodedBytes),
              decodedBytes |-> decodedBytes, shift |-> shift,
              tailByte |-> dec.buf[decodedBytes + 1] \div Pow2(shift)]

\* the closure returned by testBase64Prefix applied to b
ApplyTest(t, b) ==
    IF t.aligned
    THEN HasPrefix(b, t.decoded)
    ELSE /\ Len(b) > t.decodedBytes
         /\ SubSeq(b, 1, t.decodedBytes) = t.decoded
         /\ b[t.decodedBytes + 1] \div Pow2(t.shift) = t.tailByte

----------------------------------------------------------------------------
(* Field GF(FieldP) (filippo.io/edwards25519/field)                        *)

\* the field prime (2^255 - 19 in the library)
FieldP == 269

\* d of the curve equation -x^2 + y^2 = 1 + d x^2 y^2
CurveD == 12

\* the group order is GroupL = 2^LBits + SmallL (l = 2^252 + smallScalar)
LBits == 5

SmallL == 5

GroupL == Pow2(LBits) + SmallL

\* width of uint64
UintBits == 4

UintMod == Pow2(UintBits)

FAdd(a, b) == (a + b) % FieldP

FSub(a, b) == (a - b + FieldP) % FieldP

FMul(a, b) == (a * b) % FieldP

InvTable ==
    [a \in 0..(FieldP - 1) |->
        IF a = 0 THEN 0 ELSE CHOOSE b \in 1..(FieldP - 1) : (a * b) % FieldP = 1]

\* field.Element.Invert: 1/a, and 0 for a = 0
FInv(a) == InvTable[a]

\* field.Element.Bytes: 32 bytes, little endian
FeBytes(v) == [i \in 1..KeyLen |-> IF i <= 3 THEN (v \div Pow2(8 * (i - 1))) % 256 ELSE 0]


----------------------------------------------------------------------------
(* Edwards points (filippo.io/edwards25519.Point), held in affine form     *)

Identity == [x |-> 0, y |-> 1]

\* the base point B, of order GroupL
BasePoint == [x |-> 2, y |-> 28]

OnCurve(pt) ==
    FSub(FMul(pt.y, pt.y), FMul(pt.x, pt.x))
        = FAdd(1, FMul(CurveD, FMul(FMul(pt.x, pt.x), FMul(pt.y, pt.y))))

\* Point.Add
PointAdd(p, q) ==
    LET k == FMul(CurveD, FMul(FMul(p.x, q.x), FMul(p.y, q.y)))
    IN  [x |-> FMul(FAdd(FMul(p.x, q.y), FMul(p.y, q.x)), FInv(FAdd(1, k))),
         y |-> FMul(FAdd(FMul(p.y, q.y), FMul(p.x, q.x)), FInv(FSub(1, k)))]

PointNeg(p) == [x |-> FSub(0, p.x), y |-> p.y]

RECURSIVE PointMul(_, _)
PointMul(n, p) ==
    IF n = 0 THEN Identity
    ELSE IF n % 2 = 0 THEN LET h == PointMul(n \div 2, p) IN PointAdd(h, h)
    ELSE PointAdd(p, PointMul(n - 1, p))

\* Point.ScalarMult for a scalar of 0..GroupL-1
ScalarMult(s, p) == PointMul(s, p)

\* the multiples of the base point (the library keeps a table of them)
basepointTable == [s \in 0..(GroupL - 1) |-> PointMul(s, BasePoint)]

\* Point.ScalarBaseMult
ScalarBaseMult(s) == basepointTable[s]

\* Point.ExtendedCoordinates: X, Y, Z, T with x = X/Z, y = Y/Z, xy = T/Z
ExtendedCoordinates(p) == [X |-> p.x, Y |-> p.y, Z |-> 1, T |-> FMul(p.x, p.y)]

\* the Montgomery u-coordinate (1 + y) / (1 - y), 0 for the identity
MontgomeryU(p) == FMul(FAdd(1, p.y), FInv(FSub(1, p.y)))

\* Point.BytesMontgomery
BytesMontgomery(p) == FeBytes(MontgomeryU(p))

----------------------------------------------------------------------------
(* Scalars (filippo.io/edwards25519.Scalar): integers modulo GroupL.       *)
(* Private keys are integers of LBits + 4 bits (256 bits in the program).  *)

KeyMod == Pow2(LBits + 4)

\* RFC 7748 clamping: clear the three low bits and the top bit, set the next
Clamp(k) == ((k % Pow2(LBits + 2)) \div 8) * 8 + Pow2(LBits + 2)

\* Scalar.SetBytesWithClamping
SetBytesWithClamping(k) == Clamp(k) % GroupL

\* Scalar.Add, Scalar.Subtract, Scalar.Multiply
ScAdd(a, b) == (a + b) % GroupL

ScSub(a, b) == (a - b + GroupL) % GroupL

ScMul(a, b) == (a * b) % GroupL

\* scalarFromBytes(8): the cofactor
scalarOffset == 8 % GroupL

pointOffsetWrongCofactor == ScalarBaseMult(4)

\* pointOffset = 8 B
pointOffset == ScalarBaseMult(scalarOffset)

\* scalarFromUint64
scalarFromUint64(n) == n % GroupL

\* newPairFrom
newPairFrom(key) ==
    LET s == SetBytesWithClamping(key)
    IN  [s |-> s, p |-> ScalarBaseMult(s)]

\* the 32 bytes of a key, little endian
KeyBytes(k) == [i \in 1..KeyLen |-> IF i <= 3 THEN (k \div Pow2(8 * (i - 1))) % 256 ELSE 0]

\* the integer a printed key holds (little endian; the keys of the model fit
\* in two bytes)
KeyOfBytes(b) == b[1] + 256 * b[2]

\* wg pubkey: the X25519 public key of 32 private key bytes
WgPubkey(k) == BytesMontgomery(ScalarBaseMult(Clamp(k) % GroupL))

----------------------------------------------------------------------------
(* base64.StdEncoding.DecodeString and parsePublicKey                      *)

\* number of characters of s before the padding
DataLen(s) ==
    IF \E i \in 1..Len(s) : s[i] = PadChar
    THEN (CHOOSE i \in 1..Len(s) : s[i] = PadChar /\ \A j \in 1..(i - 1) : s[j] # PadChar) - 1
    ELSE Len(s)

\* bit j (0-based) of the 6-bit groups of s
SextetBit(s, j) == (IndexByte(stdEncoding, s[(j \div 6) + 1]) \div Pow2(5 - (j % 6))) % 2

\* base64.StdEncoding.DecodeString: [err, bytes]
DecodeString(s) ==
    LET n == DataLen(s)
    IN  IF \/ Len(s) % 4 # 0
           \/ Len(s) - n > 2
           \/ n % 4 = 1
           \/ \E i \in 1..n : IndexByte(stdEncoding, s[i]) < 0
           \/ \E i \in (n + 1)..Len(s) : s[i] # PadChar
        THEN [err |-> TRUE, bytes |-> <<>>]
        ELSE [err |-> FALSE,
              bytes |-> [k \in 1..((6 * n) \div 8) |->
                  128 * SextetBit(s, 8 * (k - 1)) + 64 * SextetBit(s, 8 * (k - 1) + 1)
                  + 32 * SextetBit(s, 8 * (k - 1) + 2) + 16 * SextetBit(s, 8 * (k - 1) + 3)
                  + 8 * SextetBit(s, 8 * (k - 1) + 4) + 4 * SextetBit(s, 8 * (k - 1) + 5)
                  + 2 * SextetBit(s, 8 * (k - 1) + 6) + SextetBit(s, 8 * (k - 1) + 7)]]

\* field.Element.SetBytes: little endian, the top bit of the last byte ignored
\* (the field elements of the model fit in the first three bytes)
FeSetBytes(b) == (b[1] + 256 * b[2] + 65536 * b[3]) % FieldP

\* Point.SetBytes: decompression of y and the sign of x; [err, p]
PointSetBytes(b) ==
    LET y == FeSetBytes(b)
        sign == b[KeyLen] \div 128
        u == FSub(FMul(y, y), 1)
        v == FAdd(FMul(CurveD, FMul(y, y)), 1)
        roots == {x \in 0..(FieldP - 1) : FMul(FMul(x, x), v) = u}
    IN  IF roots = {} \/ v = 0 THEN [err |-> TRUE, p |-> Identity]
        ELSE LET xx == CHOOSE x \in roots : x % 2 = 0
             IN  [err |-> FALSE,
                  p |-> [x |-> IF sign = 1 THEN FSub(0, xx) ELSE xx, y |-> y]]

parsePublicKeyNoInvert(pk) ==
    LET dec == DecodeString(pk)
    IN  IF dec.err \/ Len(dec.bytes) # KeyLen THEN [err |-> TRUE, p |-> Identity]
        ELSE LET u == FeSetBytes(dec.bytes)
             IN  PointSetBytes(FeBytes(FMul(FSub(u, 1), FAdd(u, 1))))

\* parsePublicKey: y = (u - 1) / (u + 1), decoded as a compressed Edwards point
parsePublicKey(pk) ==
    LET dec == DecodeString(pk)
    IN  IF dec.err \/ Len(dec.bytes) # KeyLen THEN [err |-> TRUE, p |-> Identity]
        ELSE LET u == FeSetBytes(dec.bytes)
                 n == FSub(u, 1)
                 d == FAdd(u, 1)
                 r == FInv(d)
                 y == FMul(n, r)
             IN  PointSetBytes(FeBytes(y))

----------------------------------------------------------------------------
(* projCached, projP1xP1 and the batch enumerator (findBatchPoint)         *)

\* candidates per batch (findBatchPoint is called with batchSize 1024)
BatchSize == 4

d2 == FAdd(CurveD, CurveD)

\* projCached.zero
projCachedZero == [YplusX |-> 1, YminusX |-> 1, Z |-> 1, T |-> 0, T2d |-> 0]

\* projCached.fromP3
fromP3(p) ==
    LET c == ExtendedCoordinates(p)
    IN  [YplusX |-> FAdd(c.Y, c.X), YminusX |-> FSub(c.Y, c.X), Z |-> c.Z, T |-> c.T,
         T2d |-> FMul(c.T, d2)]

\* projCached.fromP1xP1
fromP1xP1(p) ==
    LET pX == FMul(p.X, p.T)
        pY == FMul(p.Y, p.Z)
        pZ == FMul(p.Z, p.T)
        pT == FMul(p.X, p.Y)
    IN  [YplusX |-> FAdd(pY, pX), YminusX |-> FSub(pY, pX), Z |-> pZ, T |-> pT,
         T2d |-> FMul(pT, d2)]

\* projP1xP1.add
projAdd(p, q) ==
    LET PP == FMul(p.YplusX, q.YplusX)
        MM == FMul(p.YminusX, q.YminusX)
        TT2d == FMul(p.T, q.T2d)
        ZZ2 == FAdd(FMul(p.Z, q.Z), FMul(p.Z, q.Z))
    IN  [X |-> FSub(PP, MM), Y |-> FAdd(PP, MM), Z |-> FAdd(ZZ2, TT2d), T |-> FSub(ZZ2, TT2d)]

vectorDivisionStaleT(x, y) ==
    LET n == Len(x)
        r[i \in 1..n] == IF i = 1 THEN y[1] ELSE FMul(r[i - 1], y[i])
        s == [i \in 1..n |-> IF i = 1 THEN 0 ELSE FMul(r[i - 1], x[i])]
        I == FInv(r[n])
    IN  [i \in 1..n |-> IF i = 1 THEN FMul(I, x[1]) ELSE FMul(I, s[i])]

\* vectorDivision: u[i] = x[i] / y[i] with one inversion (sequences of length n >= 1)
vectorDivision(x, y) ==
    LET n == Len(x)
        r[i \in 1..n] == IF i = 1 THEN y[1] ELSE FMul(r[i - 1], y[i])
        s == [i \in 1..n |-> IF i = 1 THEN 0 ELSE FMul(r[i - 1], x[i])]
        I == FInv(r[n])
        t[i \in 1..n] == IF i = n THEN I ELSE FMul(t[i + 1], y[i + 1])
    IN  [i \in 1..n |-> IF i = 1 THEN FMul(t[1], x[1]) ELSE FMul(t[i], s[i])]

\* batchBytesMontgomery: u = (Z + Y) / (Z - Y) of every point, given by its
\* extended coordinates
batchBytesMontgomery(pts) ==
    vectorDivision([i \in 1..Len(pts) |-> FAdd(pts[i].Z, pts[i].Y)],
                   [i \in 1..Len(pts) |-> FSub(pts[i].Z, pts[i].Y)])

\* batchProjectionBytesMontgomery: u = (T + Y) / (T - Y) of every projection
batchProjectionBytesMontgomery(projections) ==
    vectorDivision([i \in 1..Len(projections) |-> FAdd(projections[i].T, projections[i].Y)],
                   [i \in 1..Len(projections) |-> FSub(projections[i].T, projections[i].Y)])

\* the offsets table of findBatchPoint: offsets[i] = i Q, and batchOffset = batchSize Q
RECURSIVE OffsetPoint(_)
OffsetPoint(i) == IF i = 1 THEN pointOffset ELSE PointAdd(OffsetPoint(i - 1), pointOffset)

offsets == [i \in 1..BatchSize |-> IF i = 1 THEN projCachedZero ELSE fromP3(OffsetPoint(i - 1))]

batchOffsetZero == projCachedZero

batchOffset == fromP3(OffsetPoint(BatchSize))

\* the u-coordinates of one batch starting at pp
BatchU(pp) == batchProjectionBytesMontgomery([i \in 1..BatchSize |-> projAdd(pp, offsets[i])])

\* index (0-based) of the first candidate of the batch the predicate accepts, or -1
FirstMatch(t, u) ==
    IF \E i \in 1..Len(u) : ApplyTest(t, FeBytes(u[i]))
    THEN (CHOOSE i \in 1..Len(u) :
            ApplyTest(t, FeBytes(u[i])) /\ \A j \in 1..(i - 1) : ~ApplyTest(t, FeBytes(u[j]))) - 1
    ELSE -1

\* uint64 addition and subtraction
UAdd(a, b) == (a + b) % UintMod

USub(a, b) == (a - b + UintMod) % UintMod

----------------------------------------------------------------------------
(* scalarToKeyBytes                                                        *)

\* smallScalar
smallScalar == SmallL % GroupL

\* [8]byte{0, 3, 6, 1, 4, 7, 2, 5}[lowBits]
AliasK(lowBits) == <<0, 3, 6, 1, 4, 7, 2, 5>>[lowBits + 1]

\* scalarToKeyBytes: [panic, key], key the value of the 32 bytes returned
scalarToKeyBytes(s) ==
    LET lowBits == s % 8
        k == AliasK(lowBits)
        alias == ScAdd(ScMul(smallScalar, k), s)
    IN  IF k < 4 THEN [panic |-> TRUE, key |-> 0]
        ELSE [panic |-> FALSE, key |-> (alias + k * Pow2(LBits)) % KeyMod]

----------------------------------------------------------------------------
(* The search process: main, findPointParallel and its workers             *)

NoScalar == 0 - 1

\* values of runtime.NumCPU()
WorkerCounts == {1, 2}

\* keys newPair reads, or the owner of the public key holds
KeySamples == {152, 200, 248}

\* values of randUint64()
Skips == {0, 1, UintMod - 1}

\* -prefix: "G", "E", "A", "B", "/"
SearchPrefixes == {<<71>>, <<69>>, <<65>>, <<66>>, <<47>>}

\* -prefix with a byte outside the alphabet: "!"
BadPrefixes == {<<33>>}

\* PREFIX of wvk offset: those of -prefix, "!", and eleven times "A"
WvkPrefixes == SearchPrefixes \cup BadPrefixes \cup {[i \in 1..11 |-> 65]}

NoTest == [panic |-> TRUE]

IdleWorker == [pc |-> "idle", skip |-> 0, n |-> 0, pp |-> projCachedZero, ok |-> FALSE,
               tests |-> 0, batches |-> 0, added |-> 0]

SearchIdle ==
    /\ cfg = [key |-> 0, public |-> <<>>, prefix |-> <<>>, timeout |-> FALSE, workers |-> 0]
    /\ mn = [pc |-> "idle", s0 |-> NoScalar, p0 |-> Identity, test |-> NoTest]
    /\ ctx = "live"
    /\ gcancel = FALSE
    /\ wk = <<>>
    /\ result = <<>>
    /\ sent = <<>>
    /\ attempts = 0
    /\ wg = 0
    /\ co = [pc |-> "idle", n |-> 0, attempts |-> 0, ok |-> FALSE]
    /\ out = [code |-> NoScalar, private |-> <<>>, public |-> <<>>]

GoInit ==
    /\ PrefixIdle
    /\ WvkIdle
    /\ AddIdle
    /\ CallIdle
    /\ cfg \in [key : KeySamples,
                public : {<<>>},
                prefix : SearchPrefixes \cup BadPrefixes,
                timeout : BOOLEAN,
                workers : WorkerCounts]
           \cup
           {[key |-> k, public |-> EncodeToString(WgPubkey(k)), prefix |-> p,
             timeout |-> t, workers |-> w] :
               k \in KeySamples, p \in SearchPrefixes \cup BadPrefixes,
               t \in BOOLEAN, w \in WorkerCounts}
    /\ mn = [pc |-> "start", s0 |-> NoScalar, p0 |-> Identity, test |-> NoTest]
    /\ ctx = "live"
    /\ gcancel = FALSE
    /\ wk = <<>>
    /\ result = <<>>
    /\ sent = <<>>
    /\ attempts = 0
    /\ wg = 0
    /\ co = [pc |-> "idle", n |-> 0, attempts |-> 0, ok |-> FALSE]
    /\ out = [code |-> NoScalar, private |-> <<>>, public |-> <<>>]

gctxDoneWithoutParent == gcancel

gctxDoneSignalOnly == gcancel \/ ctx = "signal"

\* gctx.Done(): gctx is cancelled by cancel() or with its parent
gctxDone == gcancel \/ ctx # "live"

ChanRecvLast(ch) == ch[Len(ch)]

\* <-result: the oldest value of the channel
ChanRecv(ch) == Head(ch)

\* main up to the call of findPointParallel, which starts the workers
MainStart ==
    /\ mn.pc = "start"
    /\ LET parsed == IF cfg.public # <<>> THEN parsePublicKey(cfg.public)
                     ELSE [err |-> FALSE, p |-> newPairFrom(cfg.key).p]
           s == IF cfg.public # <<>> THEN NoScalar ELSE newPairFrom(cfg.key).s
           t == testBase64Prefix(cfg.prefix)
       IN  IF parsed.err \/ t.panic
           THEN /\ mn' = [mn EXCEPT !.pc = "exit"]
                /\ out' = [out EXCEPT !.code = 2]
                /\ UNCHANGED <<wk, wg, co>>
           ELSE /\ mn' = [pc |-> "search", s0 |-> s, p0 |-> parsed.p, test |-> t]
                /\ wk' = [i \in 1..cfg.workers |-> [IdleWorker EXCEPT !.pc = "init"]]
                /\ wg' = cfg.workers
                /\ co' = [co EXCEPT !.pc = "wait"]
                /\ out' = out
    /\ UNCHANGED <<cfg, ctx, gcancel, result, sent, attempts>>
    /\ UNCHANGED <<prefixVars, cw, ad, call>>

\* SIGINT or SIGTERM reaches signal.NotifyContext
Signal ==
    /\ mn.pc = "search"
    /\ ctx = "live"
    /\ ctx' = "signal"
    /\ UNCHANGED <<cfg, mn, gcancel, wk, result, sent, attempts, wg, co, out>>
    /\ UNCHANGED <<prefixVars, cw, ad, call>>

\* the deadline of context.WithTimeout passes
Timeout ==
    /\ mn.pc = "search"
    /\ cfg.timeout
    /\ ctx = "live"
    /\ ctx' = "timeout"
    /\ UNCHANGED <<cfg, mn, gcancel, wk, result, sent, attempts, wg, co, out>>
    /\ UNCHANGED <<prefixVars, cw, ad, call>>

\* skip := randUint64() and the set-up of findBatchPoint
WorkerInit(i) ==
    /\ wk[i].pc = "init"
    /\ \E skip \in Skips :
         LET skipOffset == ScalarMult(scalarFromUint64(skip), pointOffset)
             p == PointAdd(mn.p0, skipOffset)
         IN  wk' = [wk EXCEPT ![i] = [pc |-> "loop", skip |-> skip, n |-> skip,
                                      pp |-> fromP3(p), ok |-> FALSE, tests |-> 0,
                                      batches |-> 0, added |-> 0]]
    /\ UNCHANGED <<cfg, mn, ctx, gcancel, result, sent, attempts, wg, co, out>>
    /\ UNCHANGED <<prefixVars, cw, ad, call>>

\* findBatchPoint: case <-ctx.Done(): return n, false
WorkerCancelled(i) ==
    /\ wk[i].pc = "loop"
    /\ gctxDone
    /\ wk' = [wk EXCEPT ![i].pc = "add", ![i].ok = FALSE]
    /\ UNCHANGED <<cfg, mn, ctx, gcancel, result, sent, attempts, wg, co, out>>
    /\ UNCHANGED <<prefixVars, cw, ad, call>>

\* findBatchPoint: one batch, up to the first match or to the end of the batch
WorkerBatch(i) ==
    /\ wk[i].pc = "loop"
    /\ ~gctxDone
    /\ wk[i].batches < MaxBatches
    /\ LET u == BatchU(wk[i].pp)
           m == FirstMatch(mn.test, u)
       IN  IF m >= 0
           THEN wk' = [wk EXCEPT ![i].pc = "add", ![i].ok = TRUE,
                                 ![i].n = UAdd(wk[i].n, m),
                                 ![i].tests = wk[i].tests + m + 1,
                                 ![i].batches = wk[i].batches + 1]
           ELSE wk' = [wk EXCEPT ![i].n = UAdd(wk[i].n, BatchSize),
                                 ![i].pp = fromP1xP1(projAdd(wk[i].pp, batchOffset)),
                                 ![i].tests = wk[i].tests + BatchSize,
                                 ![i].batches = wk[i].batches + 1]
    /\ UNCHANGED <<cfg, mn, ctx, gcancel, result, sent, attempts, wg, co, out>>
    /\ UNCHANGED <<prefixVars, cw, ad, call>>

WorkerAddOnlyFound(i) ==
    /\ wk[i].pc = "add"
    /\ attempts' = IF wk[i].ok THEN UAdd(attempts, USub(wk[i].n, wk[i].skip)) ELSE attempts
    /\ wk' = [wk EXCEPT ![i].pc = IF wk[i].ok THEN "send" ELSE "return",
                         ![i].added = USub(wk[i].n, wk[i].skip)]
    /\ UNCHANGED <<cfg, mn, ctx, gcancel, result, sent, wg, co, out>>
    /\ UNCHANGED <<prefixVars, cw, ad, call>>

\* attempts.Add(n - skip)
WorkerAdd(i) ==
    /\ wk[i].pc = "add"
    /\ attempts' = UAdd(attempts, USub(wk[i].n, wk[i].skip))
    /\ wk' = [wk EXCEPT ![i].pc = IF wk[i].ok THEN "send" ELSE "return",
                         ![i].added = USub(wk[i].n, wk[i].skip)]
    /\ UNCHANGED <<cfg, mn, ctx, gcancel, result, sent, wg, co, out>>
    /\ UNCHANGED <<prefixVars, cw, ad, call>>

ResultCapacityOneLess == cfg.workers - 1

\* result := make(chan uint64, workers): the capacity of the channel
ResultCapacity == cfg.workers

\* result <- n: the send blocks while the channel is full
WorkerSend(i) ==
    /\ wk[i].pc = "send"
    /\ Len(result) < ResultCapacity
    /\ result' = Append(result, wk[i].n)
    /\ sent' = Append(sent, wk[i].n)
    /\ wk' = [wk EXCEPT ![i].pc = "cancel"]
    /\ UNCHANGED <<cfg, mn, ctx, gcancel, attempts, wg, co, out>>
    /\ UNCHANGED <<prefixVars, cw, ad, call>>

\* cancel()
WorkerCancel(i) ==
    /\ wk[i].pc = "cancel"
    /\ gcancel' = TRUE
    /\ wk' = [wk EXCEPT ![i].pc = "return"]
    /\ UNCHANGED <<cfg, mn, ctx, result, sent, attempts, wg, co, out>>
    /\ UNCHANGED <<prefixVars, cw, ad, call>>

\* defer wg.Done()
WorkerDone(i) ==
    /\ wk[i].pc = "return"
    /\ wg' = wg - 1
    /\ wk' = [wk EXCEPT ![i].pc = "done"]
    /\ UNCHANGED <<cfg, mn, ctx, gcancel, result, sent, attempts, co, out>>
    /\ UNCHANGED <<prefixVars, cw, ad, call>>

\* wg.Wait() returns
CoWait ==
    /\ co.pc = "wait"
    /\ wg = 0
    /\ co' = [co EXCEPT !.pc = "select"]
    /\ UNCHANGED <<cfg, mn, ctx, gcancel, wk, result, sent, attempts, wg, out>>
    /\ UNCHANGED <<prefixVars, cw, ad, call>>

\* select: case n := <-result
CoReceive ==
    /\ co.pc = "select"
    /\ result # <<>>
    /\ co' = [pc |-> "returned", n |-> ChanRecv(result), attempts |-> attempts, ok |-> TRUE]
    /\ result' = Tail(result)
    /\ gcancel' = TRUE
    /\ mn' = [mn EXCEPT !.pc = "report"]
    /\ UNCHANGED <<cfg, ctx, wk, sent, attempts, wg, out>>
    /\ UNCHANGED <<prefixVars, cw, ad, call>>

\* select: case <-ctx.Done()
CoDone ==
    /\ co.pc = "select"
    /\ ctx # "live"
    /\ co' = [pc |-> "returned", n |-> 0, attempts |-> attempts, ok |-> FALSE]
    /\ gcancel' = TRUE
    /\ mn' = [mn EXCEPT !.pc = "report"]
    /\ UNCHANGED <<cfg, ctx, wk, result, sent, attempts, wg, out>>
    /\ UNCHANGED <<prefixVars, cw, ad, call>>

\* the public key main prints for offset n
FoundPoint(n) == PointAdd(mn.p0, ScalarMult(scalarFromUint64(n), pointOffset))

\* the private scalar main derives for offset n
FoundScalar(n) == ScAdd(mn.s0, ScMul(scalarFromUint64(n), scalarOffset))

\* main after findPointParallel: the key pair printed and the exit status
MainReport ==
    /\ mn.pc = "report"
    /\ LET kb == IF co.ok /\ mn.s0 # NoScalar THEN scalarToKeyBytes(FoundScalar(co.n))
                 ELSE [panic |-> FALSE, key |-> 0]
       IN  IF kb.panic
           THEN out' = [out EXCEPT !.code = 2]
           ELSE out' = [code |-> IF co.ok THEN 0 ELSE 1,
                        private |-> IF co.ok /\ mn.s0 # NoScalar
                                    THEN EncodeToString(KeyBytes(kb.key)) ELSE <<45>>,
                        public |-> IF co.ok
                                   THEN EncodeToString(BytesMontgomery(FoundPoint(co.n)))
                                   ELSE cfg.prefix \o <<46, 46, 46>>]
    /\ mn' = [mn EXCEPT !.pc = "exit"]
    /\ UNCHANGED <<cfg, ctx, gcancel, wk, result, sent, attempts, wg, co>>
    /\ UNCHANGED <<prefixVars, cw, ad, call>>

GoNext ==
    \/ MainStart
    \/ Signal
    \/ Timeout
    \/ \E i \in 1..Len(wk) : WorkerInit(i)
    \/ \E i \in 1..Len(wk) : WorkerCancelled(i)
    \/ \E i \in 1..Len(wk) : WorkerBatch(i)
    \/ \E i \in 1..Len(wk) : WorkerAdd(i)
    \/ \E i \in 1..Len(wk) : WorkerSend(i)
    \/ \E i \in 1..Len(wk) : WorkerCancel(i)
    \/ \E i \in 1..Len(wk) : WorkerDone(i)
    \/ CoWait
    \/ CoReceive
    \/ CoDone
    \/ MainReport

----------------------------------------------------------------------------
(* The C worker wvk (src/unnamed/part_001): strings are sequences of       *)
(* character codes, 64-bit words are the sets of their set bit positions.  *)

EXIT_SUCCESS == 0

EXIT_FAILURE == 1

EXIT_USAGE == 2

EXIT_INTERRUPTED == 3

\* exit status of a process terminated by abort(): 128 + SIGABRT
EXIT_ABORT == 128 + 6

\* half of batch_size
HalfBatch == 2

\* batch_size (must be even; 4 * 1024 in the program)
batch_size == 2 * HalfBatch

COFACTOR == 8

\* -|sqrt(-(A + 2))|, the scaling factor of the bi-rational map
SQRT486664 == 168

\* parameter A of the Montgomery curve v^2 = u^3 + A u^2 + u
A == 19

base64_digits == stdEncoding

\* strchr(base64_digits, c) - base64_digits: 64 for NUL (the terminator of
\* base64_digits), -1 when strchr returns NULL
DigitIndex(c) == IF c = 0 THEN 64 ELSE IndexByte(base64_digits, c)

\* s = (s << 6) | d for a digit index d of 0..64: the digit 64 (NUL) is bit 6,
\* which is bit 0 of s after the shift
ShiftOr(s, d) == IF d = 64 /\ s % 2 = 1 THEN s * 64 ELSE s * 64 + d

\* the position (0-based) at which the for loop of base64_decode ends: the
\* end of the source, a padding character or a character strchr does not find
base64_decode_stop(src, srclen) ==
    LET ends == {i \in 0..srclen :
                    \/ i = srclen
                    \/ src[i + 1] = PadChar
                    \/ DigitIndex(src[i + 1]) < 0}
    IN  CHOOSE i \in ends : \A j \in ends : i <= j

\* the accumulator s after cnt digits read from position from (0-based)
base64_decode_acc(src, from, cnt) ==
    LET s1 == ShiftOr(0, DigitIndex(src[from + 1]))
        s2 == ShiftOr(s1, DigitIndex(src[from + 2]))
        s3 == ShiftOr(s2, DigitIndex(src[from + 3]))
    IN  IF cnt = 0 THEN 0
        ELSE IF cnt = 1 THEN s1
        ELSE IF cnt = 2 THEN s2
        ELSE IF cnt = 3 THEN s3
        ELSE ShiftOr(s3, DigitIndex(src[from + 4]))

\* base64_decode: [rc, dst], dst the bytes written to dst[0], dst[1], ... in
\* order (the caller's buffer may be shorter)
base64_decode(src, srclen) ==
    LET stop == base64_decode_stop(src, srclen)
        bits == 6 * (stop % 4)
        s == base64_decode_acc(src, stop - (stop % 4), stop % 4)
        whole == [k \in 1..(3 * (stop \div 4)) |->
                     LET g == base64_decode_acc(src, 4 * ((k - 1) \div 3), 4)
                     IN  IF k % 3 = 1 THEN (g \div 65536) % 256
                         ELSE IF k % 3 = 2 THEN (g \div 256) % 256
                         ELSE g % 256]
        tail == IF bits = 18
                THEN <<(s \div 1024) % 256, (s \div 4) % 256, (s * 64) % 256>>
                ELSE IF bits = 12 THEN <<(s \div 16) % 256, (s * 16) % 256>>
                ELSE IF bits = 6 THEN <<(s * 4) % 256>>
                ELSE <<>>
    IN  IF stop < srclen /\ src[stop + 1] # PadChar THEN [rc |-> 0 - 1, dst |-> whole]
        ELSE [rc |-> Len(whole) + Len(tail), dst |-> whole \o tail]

\* a buffer of n bytes, zero before, after bytes were written from its start;
\* bytes written past its end are not part of it
Buffer(n, written) == [i \in 1..n |-> IF i <= Len(written) THEN written[i] ELSE 0]

\* bignum_fromlebytes_4 of a reduced value: the integer of 32 little-endian bytes
bignum_fromlebytes_4(b) == b[1] + 256 * b[2] + 65536 * b[3]

\* the word t[0] of bignum_fromlebytes_4: the bits of the first 8 bytes
WordOf(b) == {q \in 0..63 : (b[(q \div 8) + 1] \div Pow2(q % 8)) % 2 = 1}

bswap_64(w) == {8 * (7 - (q \div 8)) + (q % 8) : q \in w}

reverse_bits(w) == {63 - q : q \in w}

PrefixMaskNoSwap(nbits) == reverse_bits(0..(nbits - 1))

\* mask = reverse_bits(bswap_64((1ul << prefix_bits) - 1))
PrefixMask(nbits) == reverse_bits(bswap_64(0..(nbits - 1)))

\* edwards25519_scalarmulbase: the scalar is reduced modulo the group order
edwards25519_scalarmulbase(s) == ScalarBaseMult(s % GroupL)

\* edwards25519_decode: [err, p]
edwards25519_decode(b) == PointSetBytes(b)

\* edwards_ep_from_edwards
edwards_ep_from_edwards(p) == [X |-> p.x, Y |-> p.y, Z |-> 1, T |-> FMul(p.x, p.y)]

\* edwards_from_edwards_ep
edwards_from_edwards_ep(p) ==
    LET t == FInv(p.Z) IN [x |-> FMul(p.X, t), y |-> FMul(p.Y, t)]

\* edwards25519_epadd: addition in extended coordinates
edwards25519_epadd(p, q) ==
    edwards_ep_from_edwards(PointAdd(edwards_from_edwards_ep(p), edwards_from_edwards_ep(q)))

\* montgomery_from_edwards: (u, v) = ((1+y)/(1-y), sqrt(-(A+2)) u / x)
montgomery_from_edwards(p) ==
    LET u == FMul(FAdd(1, p.y), FInv(FSub(1, p.y)))
    IN  [X |-> u, Y |-> FMul(FMul(SQRT486664, u), FInv(p.x))]

\* montgomery_from_edwards_ep
montgomery_from_edwards_ep(p) == montgomery_from_edwards(edwards_from_edwards_ep(p))

\* edwards_bytes_montgomery
edwards_bytes_montgomery(p) == FeBytes(FMul(FAdd(1, p.y), FInv(FSub(1, p.y))))

\* montgomery_from_bytes_with_offset: [rc, p], p = decoded point + 8 offset B
montgomery_from_bytes_with_offset(bytes, offset) ==
    LET u == bignum_fromlebytes_4(bytes) % FieldP
        t == FInv(FAdd(u, 1))
        y == FMul(FSub(u, 1), t)
        tp == edwards25519_decode(FeBytes(y))
        so == FMul(offset, COFACTOR)
        po == edwards_ep_from_edwards(edwards25519_scalarmulbase(so))
    IN  IF tp.err THEN [rc |-> 0 - 1, p |-> [X |-> 0, Y |-> 0]]
        ELSE [rc |-> 0,
              p |-> montgomery_from_edwards_ep(
                        edwards25519_epadd(edwards_ep_from_edwards(tp.p), po))]

\* montgomery_add_dxinv: p1 + p2 given dxinv = 1 / (x2 - x1)
montgomery_add_dxinv(p1, p2, dxinv) ==
    LET x2A == FAdd(p2.X, A)
        dy == FSub(p2.Y, p1.Y)
        slope == FMul(dy, dxinv)
        slopeSquared == FMul(slope, slope)
        slopeCubed == FMul(slopeSquared, slope)
        x12A == FAdd(p1.X, x2A)
        x3 == FSub(slopeSquared, x12A)
        xSum == FAdd(p1.X, x12A)
        y3 == FSub(FSub(FMul(xSum, slope), slopeCubed), p1.Y)
    IN  [X |-> x3, Y |-> y3]

\* montgomery_add
montgomery_add(p1, p2) == montgomery_add_dxinv(p1, p2, FInv(FSub(p2.X, p1.X)))

\* make_offsets: offsets[i] = 8 (i + 1) B for i = 0 .. batch_size/2 - 1
make_offsets(n) ==
    [i \in 1..n |-> montgomery_from_edwards(edwards25519_scalarmulbase(FMul(i, COFACTOR)))]

\* invert_batch: a[i] = 1 / a[i] with one inversion
invert_batch(a) ==
    LET n == Len(a)
        pa[i \in 1..n] == IF i = 1 THEN a[1] ELSE FMul(pa[i - 1], a[i])
        paInv[i \in 1..n] == IF i = n THEN FInv(pa[n]) ELSE FMul(paInv[i + 1], a[i + 1])
    IN  [i \in 1..n |-> IF i = 1 THEN paInv[1] ELSE FMul(paInv[i], pa[i - 1])]

\* montgomery_add_batch_x: [x, dxinv], x the x-coordinates of p1 + p2s[i] and
\* then of p1 - p2s[i], dxinv the inverse of the extra element dxn of dx
montgomery_add_batch_x(p1, p2s, dxn) ==
    LET n == Len(p2s)
        dx == invert_batch([i \in 1..(n + 1) |->
                                IF i <= n THEN FSub(p2s[i].X, p1.X) ELSE dxn])
        Ax1 == FAdd(A, p1.X)
        plus(i) == LET t == FMul(FSub(p2s[i].Y, p1.Y), dx[i])
                   IN  FSub(FMul(t, t), FAdd(Ax1, p2s[i].X))
        minus(i) == LET t == FMul(FAdd(p2s[i].Y, p1.Y), dx[i])
                    IN  FSub(FMul(t, t), FAdd(Ax1, p2s[i].X))
    IN  [x |-> [i \in 1..(2 * n) |-> IF i <= n THEN plus(i) ELSE minus(i - n)],
         dxinv |-> dx[n + 1]]

\* base64_encode
base64_encode(src) ==
    LET full == (Len(src) \div 3) * 3
        rest == Len(src) - full
        word(g) == src[3 * g + 1] * 65536 + src[3 * g + 2] * 256 + src[3 * g + 3]
        body == [j \in 1..(4 * (full \div 3)) |->
                    base64_digits[((word((j - 1) \div 4) \div Pow2(18 - 6 * ((j - 1) % 4))) % 64) + 1]]
        tail == IF rest = 1
                THEN <<base64_digits[((src[full + 1] \div 4) % 64) + 1],
                       base64_digits[((src[full + 1] * 16) % 64) + 1], PadChar, PadChar>>
                ELSE IF rest = 2
                THEN <<base64_digits[((src[full + 1] \div 4) % 64) + 1],
                       base64_digits[(((src[full + 1] % 4) * 16) + ((src[full + 2] \div 16) % 16)) + 1],
                       base64_digits[((src[full + 2] * 4) % 64) + 1], PadChar>>
                ELSE <<>>
    IN  body \o tail

\* the offsets table of main
wvk_offsets == make_offsets(batch_size \div 2)

\* batch_offset = offsets[0] + 2 offsets[batch_size/2 - 1]
batch_offset ==
    montgomery_add(montgomery_add(wvk_offsets[1], wvk_offsets[batch_size \div 2]),
                   wvk_offsets[batch_size \div 2])

\* values of LIMIT
Limits == {0, batch_size + 1, batch_size + 2}

\* the outcomes of a write past the end of a stack buffer: it lands in
\* unused storage, or the stack protector aborts the process when the
\* function returns
OverflowOutcomes == {"benign", "abort"}

\* the exit status of a process whose function returns status
ExitStatus(ub, status) == IF ub = "abort" THEN EXIT_ABORT ELSE status

WvkInit ==
    /\ PrefixIdle
    /\ SearchIdle
    /\ AddIdle
    /\ CallIdle
    /\ cw \in {[pc |-> "start", pub |-> EncodeToString(WgPubkey(k)), prefix |-> pf,
                skip |-> sk, arg_limit |-> lim, limit |-> lim, ub |-> "none",
                interrupted |-> FALSE,
                p |-> [X |-> 0, Y |-> 0], n |-> 0, mask |-> {}, prefix_match |-> {},
                found |-> FALSE, tests |-> 0, batches |-> 0, printed |-> NoScalar,
                code |-> NoScalar] :
                  k \in KeySamples, pf \in WvkPrefixes, sk \in Skips, lim \in Limits}

\* the candidate x passes the fast test (x[0] & mask) == prefix_match
FastTest(x) == (WordOf(FeBytes(x)) \cap cw.mask) = cw.prefix_match

\* main of wvk up to the loop
WvkStart ==
    /\ cw.pc = "start"
    /\ IF Len(cw.pub) # 44
       THEN cw' = [cw EXCEPT !.pc = "exit", !.code = EXIT_USAGE]
       ELSE LET dec == base64_decode(cw.pub, 44)
                public_key == Buffer(KeyLen, dec.dst)
                prefix_len == Len(cw.prefix)
                prefix_bits == 6 * prefix_len
                prefix_bytes == Buffer(KeyLen, base64_decode(cw.prefix, prefix_len).dst)
                mask == PrefixMask(prefix_bits)
                start == montgomery_from_bytes_with_offset(public_key, cw.skip)
            IN  \E o \in (IF Len(dec.dst) > KeyLen THEN OverflowOutcomes ELSE {"none"}) :
                  IF prefix_bits > 64
                  THEN cw' = [cw EXCEPT !.pc = "exit", !.ub = o,
                                        !.code = ExitStatus(o, EXIT_USAGE)]
                  ELSE IF start.rc # 0
                  THEN cw' = [cw EXCEPT !.pc = "exit", !.ub = o,
                                        !.code = ExitStatus(o, EXIT_FAILURE)]
                  ELSE cw' = [cw EXCEPT !.pc = "loop", !.ub = o, !.mask = mask,
                                        !.prefix_match = WordOf(prefix_bytes) \cap mask,
                                        !.p = montgomery_add(start.p, wvk_offsets[batch_size \div 2]),
                                        !.n = batch_size \div 2]
    /\ UNCHANGED <<prefixVars, searchVars, ad, call>>

\* SIGINT: signal_handler sets interrupted
WvkSigint ==
    /\ cw.pc \in {"loop", "report"}
    /\ ~cw.interrupted
    /\ cw' = [cw EXCEPT !.interrupted = TRUE]
    /\ UNCHANGED <<prefixVars, searchVars, ad, call>>

\* while (!interrupted) fails
WvkInterrupted ==
    /\ cw.pc = "loop"
    /\ cw.interrupted
    /\ cw' = [cw EXCEPT !.pc = "report"]
    /\ UNCHANGED <<prefixVars, searchVars, ad, call>>

\* one iteration of the loop of main
WvkBatch ==
    /\ cw.pc = "loop"
    /\ ~cw.interrupted
    /\ cw.batches < MaxBatches
    /\ LET dxn == FSub(batch_offset.X, cw.p.X)
           b == montgomery_add_batch_x(cw.p, wvk_offsets, dxn)
           half == batch_size \div 2
       IN  IF \E i \in 1..batch_size : FastTest(b.x[i])
           THEN LET i == (CHOOSE j \in 1..batch_size :
                            FastTest(b.x[j]) /\ \A h \in 1..(j - 1) : ~FastTest(b.x[h])) - 1
                IN  cw' = [cw EXCEPT !.pc = "report", !.found = TRUE,
                                     !.n = IF i < half THEN UAdd(cw.n, i + 1)
                                           ELSE USub(cw.n, i + 1 - half),
                                     !.tests = cw.tests + i + 1,
                                     !.batches = cw.batches + 1]
           ELSE IF FastTest(cw.p.X)
           THEN cw' = [cw EXCEPT !.pc = "report", !.found = TRUE,
                                 !.tests = cw.tests + batch_size + 1,
                                 !.batches = cw.batches + 1]
           ELSE cw' = [cw EXCEPT
                         !.p = montgomery_add_dxinv(cw.p, batch_offset, b.dxinv),
                         !.n = UAdd(cw.n, batch_size + 1),
                         !.tests = cw.tests + batch_size + 1,
                         !.batches = cw.batches + 1,
                         !.pc = IF cw.limit > 0 /\ cw.limit <= batch_size + 1
                                THEN "report" ELSE "loop",
                         !.limit = IF cw.limit > batch_size + 1
                                   THEN cw.limit - (batch_size + 1) ELSE cw.limit]
    /\ UNCHANGED <<prefixVars, searchVars, ad, call>>

\* found: the offset is printed and main returns
WvkReport ==
    /\ cw.pc = "report"
    /\ cw' = [cw EXCEPT !.pc = "exit",
                        !.printed = UAdd(cw.skip, cw.n),
                        !.code = ExitStatus(cw.ub, IF cw.interrupted THEN EXIT_INTERRUPTED
                                                   ELSE EXIT_SUCCESS)]
    /\ UNCHANGED <<prefixVars, searchVars, ad, call>>

WvkNext ==
    \/ WvkStart
    \/ WvkSigint
    \/ WvkInterrupted
    \/ WvkBatch
    \/ WvkReport

----------------------------------------------------------------------------
(* Recovery of the private key from a found offset: add (Go), wvk add (C)  *)

\* the private keys wg genkey writes: clamped
AddKeys == {Clamp(k) : k \in 0..(KeyMod - 1)}

\* values of -prefix of add ("" when the flag is absent)
AddPrefixes == {<<>>} \cup SearchPrefixes

\* a candidate before it is computed
NoCandidate == [sk |-> <<>>, pk |-> <<>>]

AddInit ==
    /\ PrefixIdle
    /\ SearchIdle
    /\ WvkIdle
    /\ CallIdle
    /\ ad \in {[pc |-> "start", impl |-> im, stdin |-> EncodeToString(KeyBytes(k)),
                offset |-> n, prefix |-> pf, ub |-> "none", target |-> <<>>,
                plus |-> NoCandidate, minus |-> NoCandidate, lines |-> <<>>,
                code |-> NoScalar] :
                  im \in {"go"}, k \in AddKeys, n \in 0..(UintMod - 1), pf \in AddPrefixes}
              \cup
              {[pc |-> "start", impl |-> im, stdin |-> EncodeToString(KeyBytes(k)),
                offset |-> n, prefix |-> pf, ub |-> "none", target |-> <<>>,
                plus |-> NoCandidate, minus |-> NoCandidate, lines |-> <<>>,
                code |-> NoScalar] :
                  im \in {"c"}, k \in AddKeys, n \in 0..(UintMod - 1), pf \in {<<>>}}

\* cmdAdd (Go): a panic is exit status 2
cmdAdd ==
    /\ ad.pc = "start"
    /\ ad.impl = "go"
    /\ LET private == DecodeString(ad.stdin)
       IN  IF private.err \/ Len(private.bytes) # KeyLen
           THEN ad' = [ad EXCEPT !.pc = "exit", !.code = 2]
           ELSE LET s == newPairFrom(KeyOfBytes(private.bytes)).s
                    so == ScMul(scalarFromUint64(ad.offset), scalarOffset)
                    sPlus == ScAdd(s, so)
                    sMinus == ScSub(s, so)
                    kbPlus == scalarToKeyBytes(sPlus)
                    kbMinus == scalarToKeyBytes(sMinus)
                    skPlus == EncodeToString(KeyBytes(kbPlus.key))
                    skMinus == EncodeToString(KeyBytes(kbMinus.key))
                    pkPlus == EncodeToString(BytesMontgomery(ScalarBaseMult(sPlus)))
                    pkMinus == EncodeToString(BytesMontgomery(ScalarBaseMult(sMinus)))
                IN  IF kbPlus.panic \/ kbMinus.panic
                    THEN ad' = [ad EXCEPT !.pc = "exit", !.code = 2]
                    ELSE ad' = [ad EXCEPT
                           !.pc = "exit",
                           !.target = ad.prefix,
                           !.plus = [sk |-> skPlus, pk |-> pkPlus],
                           !.minus = [sk |-> skMinus, pk |-> pkMinus],
                           !.lines = IF ad.prefix = <<>>
                                     THEN <<skPlus, pkPlus, skMinus, pkMinus>>
                                     ELSE IF HasPrefix(pkPlus, ad.prefix) THEN <<skPlus>>
                                     ELSE IF HasPrefix(pkMinus, ad.prefix) THEN <<skMinus>>
                                     ELSE <<>>,
                           !.code = IF ad.prefix = <<>> THEN 1
                                    ELSE IF HasPrefix(pkPlus, ad.prefix)
                                            \/ HasPrefix(pkMinus, ad.prefix) THEN 0
                                    ELSE 2]
    /\ UNCHANGED <<prefixVars, searchVars, cw, call>>

\* cmd_add (C): fgets stores 43 characters and a NUL in buf
cmd_add ==
    /\ ad.pc = "start"
    /\ ad.impl = "c"
    /\ LET buf == SubSeq(ad.stdin, 1, 43) \o <<0>>
           key == base64_decode(buf, 44)
           s0 == bignum_fromlebytes_4(Buffer(KeyLen, key.dst))
           start_public_key == edwards_bytes_montgomery(edwards25519_scalarmulbase(s0))
           vanity == montgomery_from_bytes_with_offset(start_public_key, ad.offset)
           vanity_public_key == FeBytes(vanity.p.X)
           so == FMul(ad.offset, COFACTOR)
           sp == FAdd(s0, so)
           sm == FSub(s0, so)
           pp == edwards_bytes_montgomery(edwards25519_scalarmulbase(sp))
           pm == edwards_bytes_montgomery(edwards25519_scalarmulbase(sm))
       IN  \E o \in (IF Len(key.dst) > KeyLen THEN OverflowOutcomes ELSE {"none"}) :
             IF vanity.rc # 0
             THEN ad' = [ad EXCEPT !.pc = "exit", !.ub = o,
                                   !.code = ExitStatus(o, EXIT_FAILURE)]
             ELSE ad' = [ad EXCEPT
                    !.pc = "exit",
                    !.ub = o,
                    !.target = vanity_public_key,
                    !.plus = [sk |-> base64_encode(FeBytes(sp)), pk |-> pp],
                    !.minus = [sk |-> base64_encode(FeBytes(sm)), pk |-> pm],
                    !.lines = IF pp = vanity_public_key THEN <<base64_encode(FeBytes(sp))>>
                              ELSE IF pm = vanity_public_key THEN <<base64_encode(FeBytes(sm))>>
                              ELSE <<>>,
                    !.code = ExitStatus(o, IF pp = vanity_public_key \/ pm = vanity_public_key
                                           THEN EXIT_SUCCESS ELSE EXIT_FAILURE)]
    /\ UNCHANGED <<prefixVars, searchVars, cw, call>>

AddNext ==
    \/ cmdAdd
    \/ cmd_add

SpecAdd == AddInit /\ [][AddNext]_vars

\* a search process is the Go CLI or the C worker
Init == GoInit \/ WvkInit

Next == GoNext \/ WvkNext

Spec == Init /\ [][Next]_vars

----------------------------------------------------------------------------
(* Claims about the search process                                         *)

\* C1: whenever findPointParallel returns ok = true with offset n, the
\* u-coordinate of P0 + n Q satisfies the prefix predicate passed to the search.
C1_ReturnedOffsetMatches ==
    (co.pc = "returned" /\ co.ok) =>
        ApplyTest(mn.test, BytesMontgomery(FoundPoint(co.n)))

\* main found a match starting from a fresh seed and printed the pair
FreshMatchPrinted == mn.pc = "exit" /\ out.code = 0 /\ cfg.public = <<>>

\* C2: (s0 + 8 n) B equals P0 + n Q, and when main finds a match starting
\* from a fresh seed, the private key it prints derives (as wg pubkey does)
\* exactly the public key it prints, and that public key starts with the prefix.
C2_PrintedPairDerives ==
    FreshMatchPrinted =>
        /\ ScalarBaseMult(FoundScalar(co.n)) = FoundPoint(co.n)
        /\ EncodeToString(WgPubkey(KeyOfBytes(DecodeString(out.private).bytes))) = out.public
        /\ HasPrefix(out.public, cfg.prefix)

\* the scalar of the owner of the public key given to a blind search
OwnerScalar == newPairFrom(cfg.key).s

\* a blind search returned an offset
BlindFound == co.pc = "returned" /\ co.ok /\ cfg.public # <<>>

\* the public key of scalar s has the u-coordinate of the found point
Reproduces(s) ==
    MontgomeryU(ScalarBaseMult(s)) = MontgomeryU(FoundPoint(co.n))

PlusScalar == ScAdd(OwnerScalar, ScMul(8, scalarFromUint64(co.n)))

MinusScalar == ScSub(OwnerScalar, ScMul(8, scalarFromUint64(co.n)))

\* C4 (as stated): in blind mode, exactly one of s0 + 8 n and s0 - 8 n has a
\* public key whose u-coordinate equals that of the found point P0 + n Q.
C4_ExactlyOne ==
    BlindFound => (Reproduces(PlusScalar) /\ ~Reproduces(MinusScalar))
                  \/ (~Reproduces(PlusScalar) /\ Reproduces(MinusScalar))

\* C4: in blind mode, at least one of s0 + 8 n and s0 - 8 n has a public key
\* whose u-coordinate equals that of the found point P0 + n Q, and exactly one
\* of them has when n # 0 (for n = 0 both are s0).
C4_OneOfTwoScalars ==
    BlindFound =>
        /\ Reproduces(PlusScalar) \/ Reproduces(MinusScalar)
        /\ co.n # 0 => ~(Reproduces(PlusScalar) /\ Reproduces(MinusScalar))

\* a blind search returned a non-zero offset that only s0 - 8 n reproduces
C4_Witness ==
    BlindFound /\ co.n # 0 /\ Reproduces(MinusScalar) /\ ~Reproduces(PlusScalar)

\* the target of the recovery matches a public key: the prefix of its base64
\* text (Go), the 32 bytes of the vanity public key (C)
MatchesTarget(pk) == IF ad.impl = "go" THEN HasPrefix(pk, ad.target) ELSE pk = ad.target

\* the public key wg pubkey derives from a printed private key
DerivedPublic(line) ==
    LET pub == WgPubkey(KeyOfBytes(DecodeString(line).bytes))
    IN  IF ad.impl = "go" THEN EncodeToString(pub) ELSE pub

\* the recovery ran to its comparison with a target
ComparedWithTarget ==
    ad.pc = "exit" /\ (ad.impl = "c" \/ ad.prefix # <<>>) /\ ad.plus # NoCandidate

\* C5: with a target, the recovery prints a private key only if the public key
\* derived from that key matches the target; the key of s0 + 8 n is tried
\* first and the key of s0 - 8 n second; when neither matches, no key is
\* printed and the exit status is not 0.
C5_PrintsOnlyMatchingKey ==
    ComparedWithTarget =>
        /\ Len(ad.lines) <= 1
        /\ ad.lines # <<>> => MatchesTarget(DerivedPublic(ad.lines[1]))
        /\ MatchesTarget(ad.plus.pk) => ad.lines = <<ad.plus.sk>>
        /\ (~MatchesTarget(ad.plus.pk) /\ MatchesTarget(ad.minus.pk))
               => ad.lines = <<ad.minus.sk>>
        /\ (~MatchesTarget(ad.plus.pk) /\ ~MatchesTarget(ad.minus.pk))
               => (ad.lines = <<>> /\ ad.code # 0)

\* C6: a search process exits with status 0 exactly when a match was found,
\* the Go CLI (findPointParallel returned ok) and the C worker alike.
C6_ExitZeroIffMatch ==
    /\ mn.pc = "exit" => (out.code = 0 <=> co.ok)
    /\ cw.pc = "exit" => (cw.code = EXIT_SUCCESS <=> cw.found)

\* C7: findPointParallel returns ok = false only when no worker wrote a match
\* to the result channel, even when the external context is cancelled too.
C7_NotFoundOnlyWithoutMatch ==
    (co.pc = "returned" /\ ~co.ok) => sent = <<>>

\* C8: when findPointParallel returns an offset it is the one written first
\* to the result channel; offsets written later are never returned.
C8_FirstWrittenReturned ==
    (co.pc = "returned" /\ co.ok) => (sent # <<>> /\ co.n = sent[1])

\* two workers wrote different offsets and the search returned
C8_Witness ==
    co.pc = "returned" /\ co.ok /\ Len(sent) = 2 /\ sent[1] # sent[2]

\* C10: the attempt count a worker adds to the shared counter equals the
\* number of times it applied the prefix predicate, on cancellation and on a
\* match at any position inside a batch.
C10_AttemptsEqualTests ==
    \A i \in 1..Len(wk) :
        wk[i].pc \in {"send", "cancel", "return", "done"} => wk[i].added = wk[i].tests

\* the steps of worker goroutine i
Worker(i) ==
    /\ i \in 1..Len(wk)
    /\ \/ WorkerInit(i)
       \/ WorkerCancelled(i)
       \/ WorkerBatch(i)
       \/ WorkerAdd(i)
       \/ WorkerSend(i)
       \/ WorkerCancel(i)
       \/ WorkerDone(i)

\* the steps of findPointParallel after it started the workers
Coordinator == CoWait \/ CoReceive \/ CoDone

\* the searches of one fresh key for the prefix "E" with -timeout
FairInit ==
    /\ GoInit
    /\ cfg.key = 152
    /\ cfg.public = <<>>
    /\ cfg.prefix = <<69>>
    /\ cfg.timeout

\* the Go scheduler keeps running every goroutine that can take a step
FairSpec ==
    /\ FairInit
    /\ [][GoNext]_vars
    /\ \A i \in WorkerCounts : WF_vars(Worker(i))
    /\ WF_vars(Coordinator)

\* C9: once cancellation fires, externally (signal or timeout) or internally
\* (a worker found a match and called cancel), every worker eventually exits
\* and findPointParallel eventually returns.
C9_CancelLeadsToReturn ==
    (mn.pc = "search" /\ (ctx # "live" \/ gcancel)) ~>
        (co.pc = "returned" /\ \A i \in 1..Len(wk) : wk[i].pc = "done")

\* two workers were cancelled from outside before any match and the search
\* returned not-found
C9_Witness ==
    /\ ctx # "live"
    /\ co.pc = "returned" /\ ~co.ok
    /\ Len(wk) = 2
    /\ \A i \in 1..Len(wk) : wk[i].pc = "done" /\ ~wk[i].ok /\ wk[i].batches > 0

----------------------------------------------------------------------------
(* Specification of the prefix matcher alone: a prefix and a key are drawn *)
(* and the predicate is applied.                                           *)

\* characters prefixes are drawn from: 'A', 'B', '/'
PrefixChars == {65, 66, 47}

\* leading bytes of the keys drawn
ByteSamples == {0, 4, 16, 65, 252, 255}

Prefixes == UNION {[1..n -> PrefixChars] : n \in 1..MaxPrefixLen}

\* 32-byte keys whose first three bytes vary (the later bytes are 0 or 255)
Messages ==
    {[i \in 1..KeyLen |-> IF i <= 3 THEN h[i] ELSE fill] :
        h \in [1..3 -> ByteSamples], fill \in {0, 255}}

PrefixInit ==
    /\ pfx \in Prefixes
    /\ msg \in Messages
    /\ verdict = "none"
    /\ SearchIdle
    /\ WvkIdle
    /\ AddIdle
    /\ CallIdle

PrefixApply ==
    /\ verdict = "none"
    /\ verdict' = LET t == testBase64Prefix(pfx)
                  IN  IF t.panic THEN "panic" ELSE IF ApplyTest(t, msg) THEN "yes" ELSE "no"
    /\ UNCHANGED <<pfx, msg>>
    /\ UNCHANGED <<searchVars, cw, ad, call>>

PrefixNext == PrefixApply

SpecPrefix == PrefixInit /\ [][PrefixNext]_vars

----------------------------------------------------------------------------
\* C3: for every prefix of base64-alphabet characters and every 32-byte key m,
\* testBase64Prefix(prefix)(m) is true exactly when the standard base64
\* encoding of m starts with prefix.
C3_PrefixPredicate ==
    verdict # "none" =>
        /\ verdict # "panic"
        /\ (verdict = "yes") <=> HasPrefix(EncodeToString(msg), pfx)

\* a 4-character prefix was applied to a key whose encoding starts with it
C3_Witness == verdict = "yes" /\ Len(pfx) = 4

----------------------------------------------------------------------------
(* Claims about the counters and the decoders                              *)

\* C11: whenever findPointParallel returns a match with offset n, the attempts
\* it returns are at least n and at most workers (n + batchSize).
C11_AttemptsBounds ==
    (co.pc = "returned" /\ co.ok) =>
        /\ co.attempts >= co.n
        /\ co.attempts <= cfg.workers * (co.n + BatchSize)

----------------------------------------------------------------------------
(* parsePublicKey called on its own                                        *)

\* the points of the curve
CurvePoints ==
    {pt \in [x : 0..(FieldP - 1), y : 0..(FieldP - 1)] : OnCurve(pt)}

\* public keys: the base64 text of the u-coordinate of a point of the curve
ValidPublicKeys == {EncodeToString(BytesMontgomery(pt)) : pt \in CurvePoints}

\* strings handed to parsePublicKey: every reduced field element as 32
\* bytes, an element that is not reduced, 31 and 33 bytes, no bytes, and a
\* character outside the alphabet
ParseInputs ==
    {EncodeToString(FeBytes(u)) : u \in 0..(FieldP - 1)}
    \cup {EncodeToString(KeyBytes(FieldP + 3)),
          EncodeToString([i \in 1..(KeyLen - 1) |-> 0]),
          EncodeToString([i \in 1..(KeyLen + 1) |-> 0]),
          <<>>,
          [i \in 1..44 |-> IF i = 2 THEN 33 ELSE 65]}

ParseInit ==
    /\ PrefixIdle
    /\ SearchIdle
    /\ WvkIdle
    /\ AddIdle
    /\ call \in {[fn |-> "parsePublicKey", pk |-> pk, ret |-> [err |-> FALSE, p |-> Identity],
                  done |-> FALSE] : pk \in ParseInputs}

ParseApply ==
    /\ call.fn = "parsePublicKey"
    /\ ~call.done
    /\ call' = [call EXCEPT !.ret = parsePublicKey(call.pk), !.done = TRUE]
    /\ UNCHANGED <<prefixVars, searchVars, cw, ad>>

ParseNext == ParseApply

SpecParse == ParseInit /\ [][ParseNext]_vars

\* parsePublicKey has returned
Parsed == call.fn = "parsePublicKey" /\ call.done

\* C12: for every public key pk (the base64 text of the 32 bytes of the
\* u-coordinate of a point of the curve), parsePublicKey(pk) succeeds and the
\* base64 text of the Montgomery bytes of the point returned is pk.
C12_ParseRoundTrip ==
    (Parsed /\ call.pk \in ValidPublicKeys) =>
        /\ ~call.ret.err
        /\ EncodeToString(BytesMontgomery(call.ret.p)) = call.pk

\* a public key of a point outside the prime subgroup was parsed
C12_Witness ==
    /\ Parsed
    /\ call.pk \in ValidPublicKeys
    /\ ~call.ret.err
    /\ ScalarMult(GroupL, call.ret.p) # Identity
    /\ call.ret.p.x # 0

\* the 32 bytes pk decodes to hold u = -1
MinusOne(pk) ==
    LET dec == DecodeString(pk)
    IN  ~dec.err /\ Len(dec.bytes) = KeyLen /\ FeSetBytes(dec.bytes) = FieldP - 1

\* pk does not decode to exactly 32 bytes
NotKeyLen(pk) == DecodeString(pk).err \/ Len(DecodeString(pk).bytes) # KeyLen

\* no point of the curve has y = (u - 1) / (u + 1)
DecoderRejects(pk) ==
    LET u == FeSetBytes(DecodeString(pk).bytes)
        y == FMul(FSub(u, 1), FInv(FAdd(u, 1)))
    IN  ~NotKeyLen(pk) /\ ~\E pt \in CurvePoints : pt.y = y

\* C13: parsePublicKey returns an error when the input does not decode to
\* exactly 32 bytes, when u = -1, or when the Edwards decoder rejects y.
C13_InvalidKeyRejected ==
    (Parsed /\ (NotKeyLen(call.pk) \/ MinusOne(call.pk) \/ DecoderRejects(call.pk)))
        => call.ret.err

----------------------------------------------------------------------------
(* vectorDivision called on its own                                        *)

\* longest vectors
MaxVec == 3

\* field elements of the vectors
FieldSamples == {0, 1, 3, FieldP - 1}

DivInit ==
    /\ PrefixIdle
    /\ SearchIdle
    /\ WvkIdle
    /\ AddIdle
    /\ \E n \in 1..MaxVec :
         call \in {[fn |-> "vectorDivision", x0 |-> x, y0 |-> y, x |-> x, y |-> y,
                    u |-> [i \in 1..n |-> 0], done |-> FALSE] :
                      x \in [1..n -> FieldSamples], y \in [1..n -> FieldSamples]}

\* vectorDivision writes u (and its scratch), never x or y
DivApply ==
    /\ call.fn = "vectorDivision"
    /\ ~call.done
    /\ call' = [call EXCEPT !.u = vectorDivision(call.x, call.y), !.done = TRUE]
    /\ UNCHANGED <<prefixVars, searchVars, cw, ad>>

DivNext == DivApply

SpecDiv == DivInit /\ [][DivNext]_vars

\* C14: for vectors x, y of n >= 1 field elements with every y[i] non-zero,
\* vectorDivision writes u with u[i] y[i] = x[i] for every i and leaves x and y
\* unchanged.
C14_VectorDivision ==
    (call.fn = "vectorDivision" /\ call.done /\ \A i \in 1..Len(call.y0) : call.y0[i] # 0) =>
        /\ Len(call.u) = Len(call.x0)
        /\ \A i \in 1..Len(call.x0) : FMul(call.u[i], call.y0[i]) = call.x0[i]
        /\ call.x = call.x0
        /\ call.y = call.y0

\* a division of the longest vectors with no y[i] equal to 0 or 1
C14_Witness ==
    /\ call.fn = "vectorDivision"
    /\ call.done
    /\ Len(call.x0) = MaxVec
    /\ \A i \in 1..MaxVec : call.y0[i] \notin {0, 1} /\ call.x0[i] # 0
    /\ \E i, j \in 1..MaxVec : call.y0[i] # call.y0[j]

----------------------------------------------------------------------------
(* batchBytesMontgomery called on its own                                  *)

\* points of the slices: the identity, the point of order 2, B, 2 B, 8 B,
\* a point outside the prime subgroup
PointSamples ==
    {Identity, [x |-> 0, y |-> FieldP - 1], BasePoint, ScalarBaseMult(2), pointOffset,
     PointAdd(BasePoint, [x |-> 0, y |-> FieldP - 1])}

\* the extended coordinates of the affine point p with Z = z
Extended(p, z) ==
    [X |-> FMul(p.x, z), Y |-> FMul(p.y, z), Z |-> z, T |-> FMul(FMul(p.x, p.y), z)]

\* the affine point of extended coordinates
Affine(c) == [x |-> FMul(c.X, FInv(c.Z)), y |-> FMul(c.Y, FInv(c.Z))]

BatchInit ==
    /\ PrefixIdle
    /\ SearchIdle
    /\ WvkIdle
    /\ AddIdle
    /\ \E n \in 1..MaxVec :
         call \in {[fn |-> "batchBytesMontgomery", pts |-> pts, u |-> [i \in 1..n |-> 0],
                    done |-> FALSE] :
                      pts \in [1..n -> {Extended(p, z) : p \in PointSamples, z \in {1, 2}}]}

BatchApply ==
    /\ call.fn = "batchBytesMontgomery"
    /\ ~call.done
    /\ call' = [call EXCEPT !.u = batchBytesMontgomery(call.pts), !.done = TRUE]
    /\ UNCHANGED <<prefixVars, searchVars, cw, ad>>

BatchNext == BatchApply

SpecBatch == BatchInit /\ [][BatchNext]_vars

\* C15: for every slice of Edwards points, batchBytesMontgomery yields for
\* each index the 32 bytes Point.BytesMontgomery yields for that point alone.
C15_BatchEqualsPerPoint ==
    (call.fn = "batchBytesMontgomery" /\ call.done) =>
        \A i \in 1..Len(call.pts) :
            FeBytes(call.u[i]) = BytesMontgomery(Affine(call.pts[i]))

----------------------------------------------------------------------------
\* the prefix holds a byte that is neither of the alphabet nor '='
InvalidPrefix(prefix) ==
    \E i \in 1..Len(prefix) :
        IndexByte(stdEncoding, prefix[i]) < 0 /\ prefix[i] # PadChar

\* C16: a prefix holding a character that is neither of the base64 alphabet
\* nor '=' is rejected with an error before any worker starts and before any
\* candidate is tested, by the Go CLI and by the C worker.
C16_InvalidPrefixRejected ==
    /\ (mn.pc # "idle" /\ InvalidPrefix(cfg.prefix)) =>
          /\ mn.pc \in {"start", "exit"}
          /\ wk = <<>>
          /\ attempts = 0
          /\ mn.pc = "exit" => out.code # 0
    /\ (cw.pc # "idle" /\ InvalidPrefix(cw.prefix)) =>
          /\ cw.pc \in {"start", "exit"}
          /\ cw.tests = 0
          /\ cw.pc = "exit" => cw.code # EXIT_SUCCESS

----------------------------------------------------------------------------
(* testBase64Prefix called on a prefix with padding and on the same prefix *)
(* without it                                                              *)

\* longest padded prefix drawn, in characters
MaxPadLen == 3

\* characters padded prefixes are drawn from: 'A', 'B', '='
PadChars == {65, 66, PadChar}

\* the prefix without its '=' characters
Unpadded(prefix) == SelectSeq(prefix, LAMBDA c : c # PadChar)

\* the closure testBase64Prefix(prefix) applied to b: "panic", "yes" or "no"
Verdict(prefix, b) ==
    LET t == testBase64Prefix(prefix)
    IN  IF t.panic THEN "panic" ELSE IF ApplyTest(t, b) THEN "yes" ELSE "no"

PadInit ==
    /\ PrefixIdle
    /\ SearchIdle
    /\ WvkIdle
    /\ AddIdle
    /\ \E n \in 1..MaxPadLen :
         call \in {[fn |-> "testBase64Prefix", prefix |-> p, b |-> m,
                    padded |-> "none", plain |-> "none", done |-> FALSE] :
                      p \in [1..n -> PadChars], m \in Messages}

PadApply ==
    /\ call.fn = "testBase64Prefix"
    /\ ~call.done
    /\ call' = [call EXCEPT !.padded = Verdict(call.prefix, call.b),
                            !.plain = Verdict(Unpadded(call.prefix), call.b),
                            !.done = TRUE]
    /\ UNCHANGED <<prefixVars, searchVars, cw, ad>>

PadNext == PadApply

SpecPad == PadInit /\ [][PadNext]_vars

\* C17: '=' characters in a prefix are skipped and contribute no bits: the
\* predicate built from a prefix with '=' padding accepts exactly the keys the
\* predicate built from the prefix with the '=' characters removed accepts.
C17_PaddingSkipped ==
    (call.fn = "testBase64Prefix" /\ call.done) => call.padded = call.plain

----------------------------------------------------------------------------
(* The fast test of wvk offset applied to one prefix and one candidate     *)

\* longest PREFIX drawn, in characters
MaxFastLen == 11

\* reduced field elements as 32 little-endian bytes: the first three bytes
\* vary, the bytes up to the 31st are 0 or 255
WordSamples ==
    {[i \in 1..KeyLen |-> IF i <= 3 THEN h[i] ELSE IF i < KeyLen THEN fill ELSE 0] :
        h \in [1..3 -> {0, 4, 255}], fill \in {0, 255}}

\* the base64 text of the samples, cut at every length
FastPrefixes ==
    {SubSeq(EncodeToString(m), 1, n) : m \in WordSamples, n \in 1..MaxFastLen}

FastInit ==
    /\ PrefixIdle
    /\ SearchIdle
    /\ WvkIdle
    /\ AddIdle
    /\ call \in {[fn |-> "fast_test", prefix |-> p, x |-> m, ret |-> "none", done |-> FALSE] :
                    p \in FastPrefixes, m \in WordSamples}

\* main of wvk from prefix_len to the test of one candidate x of the batch
FastApply ==
    /\ call.fn = "fast_test"
    /\ ~call.done
    /\ LET prefix_len == Len(call.prefix)
           prefix_bits == 6 * prefix_len
           prefix_bytes == Buffer(KeyLen, base64_decode(call.prefix, prefix_len).dst)
           mask == PrefixMask(prefix_bits)
           prefix_match == WordOf(prefix_bytes) \cap mask
       IN  call' = [call EXCEPT
                      !.ret = IF prefix_bits > 64 THEN "usage"
                              ELSE IF (WordOf(call.x) \cap mask) = prefix_match THEN "yes"
                              ELSE "no",
                      !.done = TRUE]
    /\ UNCHANGED <<prefixVars, searchVars, cw, ad>>

FastNext == FastApply

SpecFast == FastInit /\ [][FastNext]_vars

\* C18: for every prefix of at most 10 base64 characters and every candidate
\* u, the fast test (first 64-bit little-endian word of u AND mask) ==
\* prefix_match is true exactly when the base64 text of u starts with the
\* prefix; a prefix of more than 64 bits is rejected.
C18_FastTestIsPrefixTest ==
    (call.fn = "fast_test" /\ call.done) =>
        IF 6 * Len(call.prefix) > 64
        THEN call.ret = "usage"
        ELSE /\ call.ret \in {"yes", "no"}
             /\ (call.ret = "yes") <=> HasPrefix(EncodeToString(call.x), call.prefix)

\* a prefix of 10 characters matched a candidate whose text has a character
\* other than 'A' among its first four
C18_Witness ==
    /\ call.fn = "fast_test"
    /\ call.done
    /\ Len(call.prefix) = 10
    /\ call.ret = "yes"
    /\ \E i \in 1..4 : call.prefix[i] # 65

----------------------------------------------------------------------------
(* findBatchPoint called on its own with a context that is never cancelled *)

\* the points p0 findBatchPoint starts from: public keys of the sampled
\* private keys, all of the prime subgroup
FindPoints == {newPairFrom(k).p : k \in KeySamples}

\* a point p0 outside the prime subgroup: B plus the point of order 2
FindOutside == PointAdd(BasePoint, [x |-> 0, y |-> FieldP - 1])

\* the skips of the tests: 0, 1, 2, 3, 10 and half the range of uint64
FindSkips == {0, 1, 2, 3, 10, UintMod \div 2}

\* the prefixes "G", "E", "A", "B": each is matched by a point of the prime
\* subgroup, "A" and "B" by a point FindOutside + k Q as well
FindPrefixes == {<<71>>, <<69>>, <<65>>, <<66>>}

FindInit ==
    /\ PrefixIdle
    /\ SearchIdle
    /\ WvkIdle
    /\ AddIdle
    /\ call \in {[fn |-> "findBatchPoint", p0 |-> in[1], skip |-> in[2], prefix |-> in[3],
                  test |-> testBase64Prefix(in[3]),
                  pc |-> "enter", n |-> 0, pp |-> projCachedZero, found |-> FALSE] :
                    in \in (FindPoints \X FindSkips \X FindPrefixes)
                              \cup ({FindOutside} \X {0} \X FindPrefixes)}

\* findBatchPoint up to its loop
FindEnter ==
    /\ call.fn = "findBatchPoint"
    /\ call.pc = "enter"
    /\ LET skipOffset == ScalarMult(scalarFromUint64(call.skip), pointOffset)
           p == PointAdd(call.p0, skipOffset)
       IN  call' = [call EXCEPT !.pc = "loop", !.n = call.skip, !.pp = fromP3(p)]
    /\ UNCHANGED <<prefixVars, searchVars, cw, ad>>

\* one iteration of the loop of findBatchPoint on the locals c, ctx.Done()
\* never being ready
findBatchPointLoop(c) ==
    LET u == BatchU(c.pp)
        m == FirstMatch(c.test, u)
    IN  IF m >= 0
        THEN [c EXCEPT !.pc = "returned", !.found = TRUE, !.n = UAdd(c.n, m)]
        ELSE [c EXCEPT !.n = UAdd(c.n, BatchSize),
                       !.pp = fromP1xP1(projAdd(c.pp, batchOffset))]

FindBatch ==
    /\ call.fn = "findBatchPoint"
    /\ call.pc = "loop"
    /\ call' = findBatchPointLoop(call)
    /\ UNCHANGED <<prefixVars, searchVars, cw, ad>>

FindNext == FindEnter \/ FindBatch

\* ENABLED <<FindNext>>_vars: FindEnter changes pc and FindBatch changes n
FindEnabled == call.fn = "findBatchPoint" /\ call.pc # "returned"

\* the goroutine that runs findBatchPoint is scheduled again and again: weak
\* fairness of FindNext, with ENABLED <<FindNext>>_vars written out
SpecFind ==
    /\ FindInit
    /\ [][FindNext]_vars
    /\ ([]<>(~FindEnabled) \/ []<><<FindNext>>_vars)

\* some point p0 + k Q has a u-coordinate the predicate accepts
OrbitHasMatch ==
    \E k \in 0..(GroupL - 1) :
        ApplyTest(call.test,
                  BytesMontgomery(PointAdd(call.p0, ScalarMult(k, pointOffset))))

\* C19: with a context that is never cancelled, findBatchPoint eventually
\* returns found = true whenever some point reached from p0 by adding Q
\* satisfies the predicate, for each of the skips 0, 1, 2, 3, 10 and 2^63.
C19_FindTerminates ==
    (call.fn = "findBatchPoint" /\ OrbitHasMatch) ~> (call.pc = "returned" /\ call.found)

\* a match was returned from a batch after the first
C19_Witness ==
    /\ call.fn = "findBatchPoint"
    /\ call.pc = "returned"
    /\ call.found
    /\ OrbitHasMatch
    /\ USub(call.n, call.skip) >= BatchSize

----------------------------------------------------------------------------
(* The centre point and the printed offset of wvk offset                   *)

\* the Edwards point montgomery_from_bytes_with_offset decodes the public key
\* of the worker to
WvkP0 ==
    LET u == bignum_fromlebytes_4(Buffer(KeyLen, base64_decode(cw.pub, 44).dst)) % FieldP
    IN  edwards25519_decode(FeBytes(FMul(FSub(u, 1), FInv(FAdd(u, 1))))).p

\* P0 + m Q as a Montgomery point, Q = 8 B
WvkCandidate(m) ==
    montgomery_from_edwards(PointAdd(WvkP0, ScalarMult((COFACTOR * m) % GroupL, BasePoint)))

\* C20: in the C worker, at the start of every iteration the centre p is
\* P0 + (skip + n) Q, n having started at batch_size / 2 and advanced by
\* batch_size + 1 with every batch, and the offset skip + n printed for a match
\* is that of the candidate whose u-coordinate matched: P0 + (skip + n) Q
\* passes the test.
C20_CentreAndOffset ==
    /\ cw.pc = "loop" =>
          /\ cw.n = (batch_size \div 2 + cw.batches * (batch_size + 1)) % UintMod
          /\ cw.p = WvkCandidate(cw.skip + batch_size \div 2 + cw.batches * (batch_size + 1))
    /\ (cw.pc = "exit" /\ cw.found) => FastTest(WvkCandidate(cw.printed).X)

----------------------------------------------------------------------------
(* Claims about the limit, cancellation and the counters                   *)

\* C21: with a limit L > 0 and no match, the C worker stops when L candidates
\* have been examined: it never tests more than L candidates, and it does not
\* stop before L unless it is interrupted.
C21_LimitRespected ==
    (cw.pc # "idle" /\ cw.arg_limit > 0 /\ ~cw.found) =>
        /\ cw.tests <= cw.arg_limit
        /\ (cw.printed # NoScalar /\ ~cw.interrupted) => cw.tests >= cw.arg_limit

\* C22: a worker reads the cancellation only between batches: a batch it has
\* started is tested to its first match or to its end, and a worker that saw
\* the cancellation returns (n, false) with n the offset of the first candidate
\* of the batch it did not start, having tested nothing of that batch.
C22_CancelBetweenBatches ==
    \A i \in 1..Len(wk) :
        (wk[i].pc \in {"add", "return", "done"} /\ ~wk[i].ok) =>
            /\ wk[i].tests = wk[i].batches * BatchSize
            /\ wk[i].n = wk[i].skip + wk[i].batches * BatchSize

\* the sum of the local attempt counts n - skip of the first i workers
RECURSIVE LocalAttempts(_)
LocalAttempts(i) ==
    IF i = 0 THEN 0 ELSE LocalAttempts(i - 1) + USub(wk[i].n, wk[i].skip)

\* C23: when findPointParallel returns, the attempts it returns are the sum of
\* the local attempt counts of all its workers: every worker, cancelled or
\* not, has added its count once before the counter is read.
C23_AttemptsIsSum ==
    co.pc = "returned" =>
        /\ Len(wk) = cfg.workers
        /\ \A i \in 1..Len(wk) : wk[i].pc = "done"
        /\ co.attempts = LocalAttempts(Len(wk)) % UintMod

\* two workers, one that found a match and one that was cancelled after a
\* batch, have both been counted
C23_Witness ==
    /\ co.pc = "returned"
    /\ Len(wk) = 2
    /\ \E i, j \in 1..2 :
          /\ wk[i].ok /\ ~wk[j].ok
          /\ wk[i].added > 0 /\ wk[j].added > 0
    /\ co.attempts = wk[1].added + wk[2].added

----------------------------------------------------------------------------
(* Claims about the arithmetic                                             *)

\* the denominators T - Y findBatchPoint passes to vectorDivision for the
\* batch that starts at pp
Denominators(pp) ==
    [j \in 1..BatchSize |-> LET pr == projAdd(pp, offsets[j]) IN FSub(pr.T, pr.Y)]

\* C24: every denominator the batch enumerator passes to vectorDivision is
\* non-zero, for every starting point, every skip and every batch reached.
C24_DenominatorsNonZero ==
    \A i \in 1..Len(wk) :
        (wk[i].pc = "loop" /\ ~gctxDone /\ wk[i].batches < MaxBatches) =>
            \A j \in 1..BatchSize : Denominators(wk[i].pp)[j] # 0

\* C25: for every 64-bit skip the offset a worker returns with a match is the
\* integer skip + local index, without wraparound modulo 2^64, the local index
\* being that of the candidate that matched.
C25_OffsetWithoutWrap ==
    \A i \in 1..Len(wk) :
        (wk[i].pc \in {"add", "send", "cancel", "return", "done"} /\ wk[i].ok) =>
            wk[i].n = wk[i].skip + (wk[i].tests - 1)

----------------------------------------------------------------------------
(* Claims about the private keys printed                                   *)

\* the private keys among the lines printed by the recovery
PrintedPrivateKeys ==
    IF ad.lines = <<>> THEN {}
    ELSE IF Len(ad.lines) = 4 THEN {ad.lines[1], ad.lines[3]}
    ELSE {ad.lines[1]}

\* the integer held by the 32 bytes of a printed key
PrintedValue(line) == KeyOfBytes(DecodeString(line).bytes)

\* C26: every private key printed by the recovery for a clamped s0 and an
\* offset n is unchanged by RFC 7748 clamping (low three bits clear, bit 254
\* set, bit 255 clear) and is congruent to s0 + 8 n or to s0 - 8 n modulo the
\* group order; otherwise no key is printed.
C26_ClampStable ==
    ad.pc = "exit" =>
        \A line \in PrintedPrivateKeys :
            LET v == PrintedValue(line)
                s0 == KeyOfBytes(DecodeString(ad.stdin).bytes)
                so == COFACTOR * ad.offset
            IN  /\ Clamp(v) = v
                /\ \/ v % GroupL = (s0 + so) % GroupL
                   \/ (v + so) % GroupL = s0 % GroupL

----------------------------------------------------------------------------
(* Claims about the order of the search                                    *)

\* the point p0 + m Q passes the test of the search
OffsetMatches(m) ==
    ApplyTest(mn.test, BytesMontgomery(PointAdd(mn.p0, ScalarMult(m % GroupL, pointOffset))))

\* C27: findBatchPoint tests the offsets skip, skip + 1, skip + 2, ... in
\* increasing order, none skipped and none twice: the offsets it went past
\* are exactly those from skip on whose point does not match, and the offset
\* returned with found = true is the smallest n >= skip whose point matches.
C27_SmallestOffset ==
    \A i \in 1..Len(wk) :
        wk[i].pc \in {"loop", "add", "send", "cancel", "return", "done"} =>
            LET passed == IF wk[i].ok THEN wk[i].tests - 1 ELSE wk[i].tests
            IN  /\ \A j \in 0..(passed - 1) : ~OffsetMatches(wk[i].skip + j)
                /\ wk[i].ok => /\ wk[i].n = wk[i].skip + passed
                               /\ OffsetMatches(wk[i].n)

----------------------------------------------------------------------------
(* Claims about the channel and the cancellation                           *)

\* the workers that wrote to the result channel
Senders == {i \in 1..Len(wk) : wk[i].pc \in {"cancel", "return", "done"} /\ wk[i].ok}

\* C28: findPointParallel cannot deadlock: a worker about to send its match
\* finds room in the result channel (each worker sends at most once and the
\* channel has capacity W), and when all workers have exited and the
\* coordinator is at its final select, a case is ready: a match is buffered
\* or the external context is cancelled.
C28_NoDeadlock ==
    /\ Len(sent) = Cardinality(Senders)
    /\ \A i \in 1..Len(wk) : wk[i].pc = "send" => Len(result) < ResultCapacity
    /\ co.pc = "select" =>
           /\ \A i \in 1..Len(wk) : wk[i].pc = "done"
           /\ result # <<>> \/ ctx # "live"

\* the coordinator is at its select with a full channel and a live context
C28_Witness ==
    /\ co.pc = "select"
    /\ cfg.workers = 2
    /\ Len(result) = ResultCapacity
    /\ ctx = "live"

\* C29: the signal and the timeout are combined with OR: the context the
\* workers watch is done as soon as a termination signal has arrived or the
\* configured timeout has elapsed, whichever comes first, a timeout elapses
\* only when one is configured, and once the context is done it stays done.
C29_CancelOr ==
    /\ [](ctx # "live" => gctxDone)
    /\ [](ctx = "timeout" => cfg.timeout)
    /\ [][gctxDone => gctxDone']_vars

\* the timeout elapsed before any signal or match and a worker returned on it
C29_Witness ==
    /\ ctx = "timeout"
    /\ ~gcancel
    /\ sent = <<>>
    /\ \E i \in 1..Len(wk) : wk[i].pc = "done" /\ ~wk[i].ok

----------------------------------------------------------------------------
(* Claims about the buffers of the C worker                                *)

\* C30: base64_decode writes only inside the buffer it is given: decoding the
\* 44 characters of the public key into the 32 bytes of public_key in main
\* writes the indices 0..31 only, so no write lands past the buffer.
C30_DecodeWithinBuffer ==
    (cw.pc \in {"loop", "report", "exit"} /\ Len(cw.pub) = 44) =>
        /\ Len(base64_decode(cw.pub, 44).dst) <= KeyLen
        /\ cw.ub = "none"

====
